---- MODULE Spec2Model ----
(***************************************************************************)
(* course_catalog_cache: the courses_all view and the fetcher it calls.    *)
(*                                                                         *)
(* Two workers run courses_all concurrently against one shared Django      *)
(* cache, request after request.  Every cache round trip (get / add / set  *)
(* / delete) and every upstream page request is one atomic step of the     *)
(* worker that makes it; the steps of different workers interleave freely, *)
(* and time passes between any two steps (Tick), which ages the cache      *)
(* entries.                                                                *)
(*                                                                         *)
(* No assumption is made on how long a step takes: a cache round trip, a   *)
(* scheduling pause or a page that trickles in may last any time, so Tick  *)
(* is enabled in every state.  REQUEST_TIMEOUT_SECONDS bounds the wait for *)
(* one page: the timeout is one of the outcomes of a page request.         *)
(*                                                                         *)
(* The upstream is free: every page request may be answered with any       *)
(* status, body shape, records and next url, whatever was answered before. *)
(*                                                                         *)
(* The local `page` of the fetcher is not a variable of the model: it is   *)
(* read only to format the text of the RuntimeError.                       *)
(***************************************************************************)
EXTENDS Integers, Sequences, FiniteSets, TLC

\* ---- bounds of the model ----
MaxLen == 1            \* records in the longest catalog the upstream hands out
MaxTicks == 1          \* how many times the clock advances
MaxPages == 3          \* pages in the longest chain of a scripted upstream

\* ---- program constants (DEFAULTS) ----
CACHE_TTL_SECONDS == 900
STALE_TTL_SECONDS == 86400
LOCK_TTL_SECONDS == 20
REQUEST_TIMEOUT_SECONDS == 8
PAGE_SIZE == 100
CACHE_KEY == "upvx:courses_all:v1"
STALE_KEY == "upvx:courses_all:stale:v1"
LOCK_KEY == "upvx:courses_all:lock:v1"
API_PATH == "/api/courses/v1/courses/"

\* the workers that serve requests; each serves one request after another
Procs == {"w1", "w2"}

\* opaque course records
Records == {"c1", "c2"}

\* the root of the site: settings.LMS_ROOT_URL, or the scheme and host of the
\* request
SiteRoot == "https://lms"

\* _build_internal_url(request, path, query)
BuildInternalUrl(path, query) == SiteRoot \o path \o query

\* the URL of a page; None and "" both end the while loop
NoUrl == ""
\* the url of the first page
BaseUrl == BuildInternalUrl(API_PATH, "?page_size=" \o ToString(PAGE_SIZE))
\* the urls a page may name as next
Urls == {BaseUrl, "u2"}

\* sequences over S of length at most n
RECURSIVE SeqUpTo(_, _)
SeqUpTo(S, n) ==
    IF n = 0 THEN {<<>>}
    ELSE LET shorter == SeqUpTo(S, n - 1)
         IN  shorter \cup {Append(s, x) : s \in {t \in shorter : Len(t) = n - 1}, x \in S}

Snapshots == SeqUpTo(Records, MaxLen)

\* ---- the cache store: a key is present while its ttl is positive ----
Absent == [val |-> <<>>, ttl |-> 0]
NoLock == [val |-> "", ttl |-> 0]

Present(entry) == entry.ttl > 0

\* Python's None / a value
None == [some |-> FALSE, val |-> <<>>]
Some(v) == [some |-> TRUE, val |-> v]

\* the read finds the key but loses its value
CacheGet_Blank(entry) == IF Present(entry) THEN Some(<<>>) ELSE None

\* the read takes a key that holds an empty list for a missing key
CacheGet_EmptyIsMissing(entry) ==
    IF Present(entry) /\ entry.val # <<>> THEN Some(entry.val) ELSE None

\* cache.get(key)
CacheGet(entry) == IF Present(entry) THEN Some(entry.val) ELSE None

\* cache.set(key, value, timeout)
CacheSet(value, timeout) == [val |-> value, ttl |-> timeout]

\* an entry d seconds later
Aged(entry, blank, d) == IF entry.ttl > d THEN [entry EXCEPT !.ttl = entry.ttl - d] ELSE blank

VARIABLES
    fresh,        \* the entry under CACHE_KEY
    stale,        \* the entry under STALE_KEY
    lock,         \* the entry under LOCK_KEY
    pc,           \* where each worker is in courses_all
    url,          \* fetcher local: the page being requested
    all_results,  \* fetcher local: the accumulator
    got_lock,     \* courses_all local
    exc,          \* the exception caught by courses_all, "" when none
    resp,         \* the response of courses_all (held while `finally` runs)
    ops,          \* history: what the worker's current request has done so far
    clean,        \* history: every reply of the current fetch was a well-formed 200
    last_good,    \* history: the snapshot of the refresh that completed last
    ticks,        \* times the clock has advanced
    chain,        \* the chain of pages a scripted upstream serves (FetchSpec)
    requested,    \* history: the urls requested from the scripted upstream
    lock_by       \* history: the worker whose cache.add created the lock entry

vars == <<fresh, stale, lock, pc, url, all_results, got_lock, exc, resp, ops,
          clean, last_good, ticks, chain, requested, lock_by>>

NoResp == [status |-> 0, source |-> "", results |-> <<>>]
NoOps == [add |-> 0, fetch |-> 0, sets |-> <<>>, del |-> 0, partial |-> FALSE]

\* _json_response(results, source, http_status)
JsonResponse200(results, source) == [status |-> 200, source |-> source, results |-> results]
\* JsonResponse({...detail...}, status=...)
JsonError(status) == [status |-> status, source |-> "", results |-> <<>>]

\* no worker: the lock entry is absent
Nobody == ""

\* no scripted upstream: every page request may be answered with anything
NoChain == [pages |-> <<>>, last |-> ""]

\* courses_all returns response r to the caller of worker p
Return(p, r) ==
    /\ resp' = [resp EXCEPT ![p] = r]
    /\ pc' = [pc EXCEPT ![p] = "done"]

Init ==
    /\ fresh = Absent
    /\ stale = Absent
    /\ lock = NoLock
    /\ pc = [p \in Procs |-> "idle"]
    /\ url = [p \in Procs |-> NoUrl]
    /\ all_results = [p \in Procs |-> <<>>]
    /\ got_lock = [p \in Procs |-> FALSE]
    /\ exc = [p \in Procs |-> ""]
    /\ resp = [p \in Procs |-> NoResp]
    /\ ops = [p \in Procs |-> NoOps]
    /\ clean = [p \in Procs |-> TRUE]
    /\ last_good = None
    /\ ticks = 0
    /\ chain = NoChain
    /\ requested = <<>>
    /\ lock_by = Nobody

\* `if cached:` instead of `if cached is not None:`
IsTruthy(v) == v.some /\ v.val # <<>>

\* `cached is not None`
IsNotNone(v) == v.some

\* 1) Fresh cache: a request arrives and reads CACHE_KEY
Start(p) ==
    /\ pc[p] \in {"idle", "done"}
    /\ LET cached == CacheGet(fresh) IN
         IF IsNotNone(cached)
         THEN Return(p, JsonResponse200(cached.val, "cache"))
         ELSE /\ pc' = [pc EXCEPT ![p] = "add"]
              /\ resp' = [resp EXCEPT ![p] = NoResp]
    /\ ops' = [ops EXCEPT ![p] = NoOps]
    /\ got_lock' = [got_lock EXCEPT ![p] = FALSE]
    /\ clean' = [clean EXCEPT ![p] = TRUE]
    /\ UNCHANGED <<fresh, stale, lock, url, all_results, exc, last_good, ticks,
                   chain, requested, lock_by>>

\* cache.add(key, value, timeout): the entry afterwards, and whether it was added
CacheAdd(entry, value, timeout) ==
    IF Present(entry) THEN entry ELSE [val |-> value, ttl |-> timeout]
Added(entry) == ~Present(entry)

\* the delete is lost: the key stays as it is
CacheDelete_Lost(entry) == entry

\* cache.delete(key)
CacheDelete(entry) == NoLock

\* 2) Refresh with distributed lock: cache.add(lock_key, "1", timeout=LOCK_TTL);
\* the winner enters the fetcher, which sends the GET for the first page
AddLock(p) ==
    /\ pc[p] = "add"
    /\ lock' = CacheAdd(lock, "1", LOCK_TTL_SECONDS)
    /\ got_lock' = [got_lock EXCEPT ![p] = Added(lock)]
    /\ lock_by' = IF Added(lock) THEN p ELSE lock_by
    /\ IF Added(lock)
       THEN /\ pc' = [pc EXCEPT ![p] = "fetch"]
            /\ url' = [url EXCEPT ![p] = BaseUrl]
            /\ ops' = [ops EXCEPT ![p].add = @ + 1, ![p].fetch = @ + 1]
       ELSE /\ pc' = [pc EXCEPT ![p] = "lost_stale"]
            /\ url' = url
            /\ ops' = [ops EXCEPT ![p].add = @ + 1]
    /\ all_results' = [all_results EXCEPT ![p] = <<>>]
    /\ UNCHANGED <<fresh, stale, exc, resp, clean, last_good, ticks,
                   chain, requested>>

\* ---- the upstream: what session.get(url, timeout=...) can come back with:
\* an HTTP reply, or an exception (the timeout, a transport failure) ----
\* the field is missing or null, a string (v: what iterating it yields), or a
\* list of records
ResultsFields ==
    {[t |-> "null", v |-> <<>>], [t |-> "str", v |-> <<"s">>]}
        \cup {[t |-> "list", v |-> s] : s \in Snapshots}
PaginationFields ==
    {[t |-> "null", next |-> NoUrl], [t |-> "str", next |-> NoUrl]}
        \cup {[t |-> "dict", next |-> u] : u \in Urls \cup {NoUrl}}
NoBody == [json |-> FALSE, results |-> [t |-> "null", v |-> <<>>],
           pagination |-> [t |-> "null", next |-> NoUrl]]
Bodies ==
    {NoBody} \cup [json : {TRUE}, results : ResultsFields, pagination : PaginationFields]
Replies ==
    [kind : {"http"}, status : {200, 500}, body : Bodies]
        \cup [kind : {"timeout", "transport"}, status : {0}, body : {NoBody}]

\* history: the upstream answered with status 200 and a body of the expected
\* shape (a JSON object whose pagination, when given, is an object)
WellFormed200(r) ==
    /\ r.kind = "http"
    /\ r.status = 200
    /\ r.body.json
    /\ r.body.pagination.t # "str"

\* the status is not checked
StatusOK_Unchecked(status) == TRUE

\* `resp.status_code != 200` is false
StatusOK(status) == status = 200

\* the exception one iteration of the loop raises on reply r, "" when none
Raised(r) ==
    IF r.kind # "http" THEN r.kind
    ELSE IF ~StatusOK(r.status) THEN "status"
    ELSE IF ~r.body.json THEN "parse"
    ELSE IF r.body.pagination.t = "str" THEN "shape"
    ELSE ""

\* results = data.get("results") or [], without the isinstance check
PageResults_Unchecked(data) == data.results.v

\* results = data.get("results") or []; not a list -> []
PageResults(data) == IF data.results.t = "list" THEN data.results.v ELSE <<>>

\* url = (data.get("pagination") or {}).get("next")
NextUrl(data) == IF data.pagination.t = "dict" THEN data.pagination.next ELSE NoUrl

\* `while url`
LoopContinues(u) == u # NoUrl

\* what one iteration of the while loop makes of reply r: the exception it
\* raises ("" when none), the records it appends, the next url
Iteration(r) ==
    [exc |-> Raised(r),
     results |-> IF Raised(r) = "" THEN PageResults(r.body) ELSE <<>>,
     next |-> IF Raised(r) = "" THEN NextUrl(r.body) ELSE NoUrl,
     ok |-> WellFormed200(r)]
Iterations == {Iteration(r) : r \in Replies}

\* what the caller of courses_all gets when an exception leaves it
Propagated == [status |-> 0, source |-> "exception", results |-> <<>>]

\* `except RuntimeError`: only the status check of the fetcher is caught
Caught_OnlyRuntimeError(kind) == kind = "status"

\* `except Exception`: every exception of the fetcher derives from Exception
\* (requests' Timeout and ConnectionError, RuntimeError, the ValueError of
\* resp.json(), the AttributeError of .get on a body of the wrong shape)
Caught(kind) == kind \in {"timeout", "transport", "status", "parse", "shape"}

\* one iteration of the while loop raises: the accumulator is dropped
\* (ops.partial: it held records) and control reaches `except Exception`; an
\* exception that no clause catches leaves through `finally`
PageRaises(p) ==
    /\ pc[p] = "fetch"
    /\ \E it \in Iterations :
        /\ it.exc # ""
        /\ clean' = [clean EXCEPT ![p] = @ /\ it.ok]
        /\ ops' = [ops EXCEPT ![p].partial = all_results[p] # <<>>]
        /\ IF Caught(it.exc)
           THEN /\ exc' = [exc EXCEPT ![p] = it.exc]
                /\ pc' = [pc EXCEPT ![p] = "except"]
                /\ resp' = resp
           ELSE /\ exc' = exc
                /\ pc' = [pc EXCEPT ![p] = "finally"]
                /\ resp' = [resp EXCEPT ![p] = Propagated]
    /\ url' = [url EXCEPT ![p] = NoUrl]
    /\ all_results' = [all_results EXCEPT ![p] = <<>>]
    /\ UNCHANGED <<fresh, stale, lock, got_lock, last_good, ticks,
                   chain, requested, lock_by>>

\* the page is put in front of the accumulator
Extended_Prepended(acc, results) == results \o acc

\* all_results.extend(results)
Extended(acc, results) == acc \o results

\* the rest of a loop body that raised nothing: the page is appended and
\* either the next page is requested or the fetcher returns all_results
LoopBody(p, it) ==
    /\ all_results' = [all_results EXCEPT ![p] = Extended(@, it.results)]
    /\ url' = [url EXCEPT ![p] = it.next]
    /\ clean' = [clean EXCEPT ![p] = @ /\ it.ok]
    /\ pc' = [pc EXCEPT ![p] = IF LoopContinues(it.next) THEN "fetch" ELSE "set_fresh"]

\* one iteration of the while loop completes, whatever the upstream answers
PageRead(p) ==
    /\ pc[p] = "fetch"
    /\ \E it \in Iterations :
        /\ it.exc = ""
        /\ Len(all_results[p]) + Len(it.results) <= MaxLen
        /\ LoopBody(p, it)
    /\ UNCHANGED <<fresh, stale, lock, got_lock, exc, resp, ops, last_good, ticks,
                   chain, requested, lock_by>>

\* cache.set(cache_key, results, timeout=CACHE_TTL)
SetFresh(p) ==
    /\ pc[p] = "set_fresh"
    /\ fresh' = CacheSet(all_results[p], CACHE_TTL_SECONDS)
    /\ ops' = [ops EXCEPT ![p].sets = Append(@, <<"fresh", all_results[p]>>)]
    /\ pc' = [pc EXCEPT ![p] = "set_stale"]
    /\ UNCHANGED <<stale, lock, url, all_results, got_lock, exc, resp, clean, last_good, ticks,
                   chain, requested, lock_by>>

\* the stale tier is not written
SetStale_Skipped(p) ==
    /\ pc[p] = "set_stale"
    /\ resp' = [resp EXCEPT ![p] = JsonResponse200(all_results[p], "fresh")]
    /\ pc' = [pc EXCEPT ![p] = "finally"]
    /\ UNCHANGED <<fresh, stale, lock, url, all_results, got_lock, exc, ops, clean,
                   last_good, ticks, chain, requested, lock_by>>

\* cache.set(stale_key, results, timeout=STALE_TTL); return source="fresh"
\* (the return value is held while `finally` runs)
SetStale(p) ==
    /\ pc[p] = "set_stale"
    /\ stale' = CacheSet(all_results[p], STALE_TTL_SECONDS)
    /\ ops' = [ops EXCEPT ![p].sets = Append(@, <<"stale", all_results[p]>>)]
    /\ resp' = [resp EXCEPT ![p] = JsonResponse200(all_results[p], "fresh")]
    /\ last_good' = Some(all_results[p])
    /\ pc' = [pc EXCEPT ![p] = "finally"]
    /\ UNCHANGED <<fresh, lock, url, all_results, got_lock, exc, clean, ticks,
                   chain, requested, lock_by>>

\* no fallback to the stale tier: 502 at once
ExceptGetStale_NoFallback(p) ==
    /\ pc[p] = "except"
    /\ resp' = [resp EXCEPT ![p] = JsonError(502)]
    /\ exc' = [exc EXCEPT ![p] = ""]
    /\ pc' = [pc EXCEPT ![p] = "finally"]
    /\ UNCHANGED <<fresh, stale, lock, url, all_results, got_lock, ops, clean, last_good, ticks,
                   chain, requested, lock_by>>

\* the fallback reads cache_key instead of stale_key
ExceptGetStale_ReadsFresh(p) ==
    /\ pc[p] = "except"
    /\ LET st == CacheGet(fresh) IN
         resp' = [resp EXCEPT ![p] =
                    IF IsNotNone(st) THEN JsonResponse200(st.val, "stale")
                    ELSE JsonError(502)]
    /\ exc' = [exc EXCEPT ![p] = ""]
    /\ pc' = [pc EXCEPT ![p] = "finally"]
    /\ UNCHANGED <<fresh, stale, lock, url, all_results, got_lock, ops, clean, last_good, ticks,
                   chain, requested, lock_by>>

\* after a failed fetch the request calls the fetcher once more
ExceptGetStale_Retries(p) ==
    /\ pc[p] = "except"
    /\ IF ops[p].fetch < 2
       THEN /\ pc' = [pc EXCEPT ![p] = "fetch"]
            /\ url' = [url EXCEPT ![p] = BaseUrl]
            /\ ops' = [ops EXCEPT ![p].fetch = @ + 1]
            /\ resp' = resp
       ELSE /\ pc' = [pc EXCEPT ![p] = "finally"]
            /\ resp' = [resp EXCEPT ![p] =
                          IF IsNotNone(CacheGet(stale))
                          THEN JsonResponse200(CacheGet(stale).val, "stale")
                          ELSE JsonError(502)]
            /\ UNCHANGED <<url, ops>>
    /\ exc' = [exc EXCEPT ![p] = ""]
    /\ UNCHANGED <<fresh, stale, lock, all_results, got_lock, clean, last_good, ticks,
                   chain, requested, lock_by>>

\* except Exception: stale = cache.get(stale_key); 200 "stale" or 502
ExceptGetStale(p) ==
    /\ pc[p] = "except"
    /\ LET st == CacheGet(stale) IN
         resp' = [resp EXCEPT ![p] =
                    IF IsNotNone(st) THEN JsonResponse200(st.val, "stale")
                    ELSE JsonError(502)]
    /\ exc' = [exc EXCEPT ![p] = ""]
    /\ pc' = [pc EXCEPT ![p] = "finally"]
    /\ UNCHANGED <<fresh, stale, lock, url, all_results, got_lock, ops, clean, last_good, ticks,
                   chain, requested, lock_by>>

\* finally: cache.delete(lock_key); then the held response is returned
Finally(p) ==
    /\ pc[p] = "finally"
    /\ lock' = CacheDelete(lock)
    /\ lock_by' = IF Present(lock') THEN lock_by ELSE Nobody
    /\ ops' = [ops EXCEPT ![p].del = @ + 1]
    /\ Return(p, resp[p])
    /\ url' = [url EXCEPT ![p] = NoUrl]
    /\ all_results' = [all_results EXCEPT ![p] = <<>>]
    /\ UNCHANGED <<fresh, stale, got_lock, exc, clean, last_good, ticks,
                   chain, requested>>

\* 3) Someone else is refreshing: stale = cache.get(stale_key)
LostGetStale(p) ==
    /\ pc[p] = "lost_stale"
    /\ LET st == CacheGet(stale) IN
         IF IsNotNone(st)
         THEN Return(p, JsonResponse200(st.val, "stale"))
         ELSE /\ pc' = [pc EXCEPT ![p] = "lost_fresh"]
              /\ resp' = resp
    /\ UNCHANGED <<fresh, stale, lock, url, all_results, got_lock, exc, ops, clean, last_good, ticks,
                   chain, requested, lock_by>>

\* instead of answering 503 the loser contests the lock again
LostGetFresh_Retries(p) ==
    /\ pc[p] = "lost_fresh"
    /\ LET cached2 == CacheGet(fresh) IN
         IF IsNotNone(cached2)
         THEN /\ Return(p, JsonResponse200(cached2.val, "cache"))
              /\ ops' = ops
         ELSE /\ pc' = [pc EXCEPT ![p] = "add"]
              /\ resp' = resp
              /\ ops' = [ops EXCEPT ![p] = NoOps]
    /\ UNCHANGED <<fresh, stale, lock, url, all_results, got_lock, exc, clean, last_good, ticks,
                   chain, requested, lock_by>>

\* no second read of cache_key: 503 at once
LostGetFresh_NoReread(p) ==
    /\ pc[p] = "lost_fresh"
    /\ Return(p, JsonError(503))
    /\ UNCHANGED <<fresh, stale, lock, url, all_results, got_lock, exc, ops, clean, last_good, ticks,
                   chain, requested, lock_by>>

\* 4) Warmup fallback: cached2 = cache.get(cache_key); 200 "cache" or 503
LostGetFresh(p) ==
    /\ pc[p] = "lost_fresh"
    /\ LET cached2 == CacheGet(fresh) IN
         Return(p, IF IsNotNone(cached2) THEN JsonResponse200(cached2.val, "cache")
                   ELSE JsonError(503))
    /\ UNCHANGED <<fresh, stale, lock, url, all_results, got_lock, exc, ops, clean, last_good, ticks,
                   chain, requested, lock_by>>

\* ---- time: d seconds pass; entries age and expire ----
Steps == {LOCK_TTL_SECONDS, CACHE_TTL_SECONDS, STALE_TTL_SECONDS}

Tick ==
    /\ ticks < MaxTicks
    /\ \E d \in Steps :
        /\ fresh' = Aged(fresh, Absent, d)
        /\ stale' = Aged(stale, Absent, d)
        /\ lock' = Aged(lock, NoLock, d)
    /\ lock_by' = IF Present(lock') THEN lock_by ELSE Nobody
    /\ ticks' = ticks + 1
    /\ UNCHANGED <<pc, url, all_results, got_lock, exc, resp, ops, clean, last_good,
                   chain, requested>>

Step(p) ==
    \/ Start(p)
    \/ AddLock(p)
    \/ PageRaises(p)
    \/ PageRead(p)
    \/ SetFresh(p)
    \/ SetStale(p)
    \/ ExceptGetStale(p)
    \/ Finally(p)
    \/ LostGetStale(p)
    \/ LostGetFresh(p)

Next == Tick \/ \E p \in Procs : Step(p)

Spec == Init /\ [][Next]_vars

\* a request once received is served: the worker runs its handler, and every
\* page request ends (a reply, a transport failure or the timeout); new
\* requests need not arrive, time need not pass
Work(p) ==
    \/ AddLock(p)
    \/ PageRaises(p)
    \/ PageRead(p)
    \/ SetFresh(p)
    \/ SetStale(p)
    \/ ExceptGetStale(p)
    \/ Finally(p)
    \/ LostGetStale(p)
    \/ LostGetFresh(p)

LiveSpec == Spec /\ \A p \in Procs : WF_vars(Work(p))

(***************************************************************************)
(* The fetcher against a scripted upstream: a finite chain of pages, each  *)
(* answered with status 200 and a results field (a list of records, or     *)
(* malformed), linked by pagination.next; on the last page next is null,   *)
(* or pagination is missing.                                               *)
(***************************************************************************)

\* the worker that runs the fetcher
Fetcher == "w1"

\* the url of the i-th page of a chain; the first is the url the fetcher builds
PageUrl(i) == IF i = 1 THEN BaseUrl ELSE "u" \o ToString(i)

Chains ==
    [pages : SeqUpTo(ResultsFields, MaxPages) \ {<<>>}, last : {"next", "pagination"}]

\* the pagination field of the i-th page of chain c
ChainPagination(c, i) ==
    IF i < Len(c.pages) THEN [t |-> "dict", next |-> PageUrl(i + 1)]
    ELSE IF c.last = "next" THEN [t |-> "dict", next |-> NoUrl]
    ELSE [t |-> "null", next |-> NoUrl]

\* what session.get(u) comes back with when the upstream serves chain c
ChainReply(c, u) ==
    LET i == CHOOSE j \in 1..Len(c.pages) : PageUrl(j) = u IN
    [kind |-> "http", status |-> 200,
     body |-> [json |-> TRUE,
               results |-> c.pages[i],
               pagination |-> ChainPagination(c, i)]]

\* the fetcher has been called by a lock winner on a cold cache
FetchInit ==
    /\ chain \in Chains
    /\ requested = <<>>
    /\ fresh = Absent
    /\ stale = Absent
    /\ lock = CacheAdd(NoLock, "1", LOCK_TTL_SECONDS)
    /\ lock_by = Fetcher
    /\ pc = [p \in Procs |-> IF p = Fetcher THEN "fetch" ELSE "idle"]
    /\ url = [p \in Procs |-> IF p = Fetcher THEN BaseUrl ELSE NoUrl]
    /\ all_results = [p \in Procs |-> <<>>]
    /\ got_lock = [p \in Procs |-> p = Fetcher]
    /\ exc = [p \in Procs |-> ""]
    /\ resp = [p \in Procs |-> NoResp]
    /\ ops = [p \in Procs |-> IF p = Fetcher THEN [NoOps EXCEPT !.add = 1, !.fetch = 1]
                                ELSE NoOps]
    /\ clean = [p \in Procs |-> TRUE]
    /\ last_good = None
    /\ ticks = 0

\* one iteration of the while loop: the page at url is requested from the
\* scripted upstream and read
ChainPage(p) ==
    /\ pc[p] = "fetch"
    /\ requested' = Append(requested, url[p])
    /\ LET it == Iteration(ChainReply(chain, url[p])) IN
         /\ it.exc = ""
         /\ LoopBody(p, it)
    /\ UNCHANGED <<fresh, stale, lock, got_lock, exc, resp, ops, last_good, ticks,
                   chain, lock_by>>

FetchNext == ChainPage(Fetcher)

FetchSpec == FetchInit /\ [][FetchNext]_vars

(***************************************************************************)
(* The legacy handler, src/views.py: the same view with its settings as    *)
(* module constants.  It runs against the same cache store; its keys name  *)
(* the entries it reads and writes.                                        *)
(***************************************************************************)
Legacy_CACHE_KEY == "upvx:courses_all:v1"
Legacy_STALE_KEY == "upvx:courses_all:stale:v1"
Legacy_LOCK_KEY == "upvx:courses_all:lock:v1"
Legacy_CACHE_TTL_SECONDS == 15 * 60
Legacy_STALE_TTL_SECONDS == 24 * 60 * 60
Legacy_LOCK_TTL_SECONDS == 20
Legacy_REQUEST_TIMEOUT_SECONDS == 8

\* the entry the store holds under a key
Entry(key) ==
    IF key = CACHE_KEY THEN fresh
    ELSE IF key = STALE_KEY THEN stale
    ELSE IF key = LOCK_KEY THEN lock
    ELSE Absent

\* the store after the entry under a key has been replaced
Store(key, entry) ==
    /\ fresh' = IF key = CACHE_KEY THEN entry ELSE fresh
    /\ stale' = IF key = STALE_KEY THEN entry ELSE stale
    /\ lock' = IF key = LOCK_KEY THEN entry ELSE lock

\* session.get(url, timeout=...): what is sent
PageRequest(u) == [url |-> u, timeout |-> REQUEST_TIMEOUT_SECONDS]
Legacy_PageRequest(u) == [url |-> u, timeout |-> Legacy_REQUEST_TIMEOUT_SECONDS]

\* _build_internal_url(request, path)
Legacy_BuildInternalUrl(path) == SiteRoot \o path

\* the page size is left out of the url
Legacy_BaseUrl_NoPageSize == Legacy_BuildInternalUrl("/api/courses/v1/courses/")

\* the url of the first page
Legacy_BaseUrl == Legacy_BuildInternalUrl("/api/courses/v1/courses/?page_size=100")

\* _json_response(results, source, http_status)
Legacy_JsonResponse200(results, source) ==
    [status |-> 200, source |-> source, results |-> results]
\* JsonResponse({...detail...}, status=...)
Legacy_JsonError(status) == [status |-> status, source |-> "", results |-> <<>>]

\* 1) Cache "fresh"
Legacy_Start(p) ==
    /\ pc[p] \in {"idle", "done"}
    /\ LET cached == CacheGet(Entry(Legacy_CACHE_KEY)) IN
         IF IsNotNone(cached)
         THEN Return(p, Legacy_JsonResponse200(cached.val, "cache"))
         ELSE /\ pc' = [pc EXCEPT ![p] = "add"]
              /\ resp' = [resp EXCEPT ![p] = NoResp]
    /\ ops' = [ops EXCEPT ![p] = NoOps]
    /\ got_lock' = [got_lock EXCEPT ![p] = FALSE]
    /\ clean' = [clean EXCEPT ![p] = TRUE]
    /\ UNCHANGED <<fresh, stale, lock, url, all_results, exc, last_good, ticks,
                   chain, requested, lock_by>>

\* 2) cache.add(LOCK_KEY, "1", timeout=LOCK_TTL_SECONDS); the winner enters
\* the fetcher
Legacy_AddLock(p) ==
    /\ pc[p] = "add"
    /\ LET held == Entry(Legacy_LOCK_KEY) IN
         /\ Store(Legacy_LOCK_KEY, CacheAdd(held, "1", Legacy_LOCK_TTL_SECONDS))
         /\ got_lock' = [got_lock EXCEPT ![p] = Added(held)]
         /\ lock_by' = IF Added(held) THEN p ELSE lock_by
         /\ IF Added(held)
            THEN /\ pc' = [pc EXCEPT ![p] = "fetch"]
                 /\ url' = [url EXCEPT ![p] = Legacy_BaseUrl]
                 /\ ops' = [ops EXCEPT ![p].add = @ + 1, ![p].fetch = @ + 1]
            ELSE /\ pc' = [pc EXCEPT ![p] = "lost_stale"]
                 /\ url' = url
                 /\ ops' = [ops EXCEPT ![p].add = @ + 1]
    /\ all_results' = [all_results EXCEPT ![p] = <<>>]
    /\ UNCHANGED <<exc, resp, clean, last_good, ticks, chain, requested>>

\* `resp.status_code != 200` is false
Legacy_StatusOK(status) == status = 200

\* the exception one iteration of the loop raises on reply r, "" when none
Legacy_Raised(r) ==
    IF r.kind # "http" THEN r.kind
    ELSE IF ~Legacy_StatusOK(r.status) THEN "status"
    ELSE IF ~r.body.json THEN "parse"
    ELSE IF r.body.pagination.t = "str" THEN "shape"
    ELSE ""

\* results = data.get("results") or []; not a list -> []
Legacy_PageResults(data) == IF data.results.t = "list" THEN data.results.v ELSE <<>>

\* url = (data.get("pagination") or {}).get("next")
Legacy_NextUrl(data) == IF data.pagination.t = "dict" THEN data.pagination.next ELSE NoUrl

\* `while url`
Legacy_LoopContinues(u) == u # NoUrl

\* what one iteration of the while loop makes of reply r
Legacy_Iteration(r) ==
    [exc |-> Legacy_Raised(r),
     results |-> IF Legacy_Raised(r) = "" THEN Legacy_PageResults(r.body) ELSE <<>>,
     next |-> IF Legacy_Raised(r) = "" THEN Legacy_NextUrl(r.body) ELSE NoUrl,
     ok |-> WellFormed200(r)]
Legacy_Iterations == {Legacy_Iteration(r) : r \in Replies}

\* `except Exception`
Legacy_Caught(kind) == kind \in {"timeout", "transport", "status", "parse", "shape"}

\* one iteration of the while loop raises
Legacy_PageRaises(p) ==
    /\ pc[p] = "fetch"
    /\ \E it \in Legacy_Iterations :
        /\ it.exc # ""
        /\ clean' = [clean EXCEPT ![p] = @ /\ it.ok]
        /\ ops' = [ops EXCEPT ![p].partial = all_results[p] # <<>>]
        /\ IF Legacy_Caught(it.exc)
           THEN /\ exc' = [exc EXCEPT ![p] = it.exc]
                /\ pc' = [pc EXCEPT ![p] = "except"]
                /\ resp' = resp
           ELSE /\ exc' = exc
                /\ pc' = [pc EXCEPT ![p] = "finally"]
                /\ resp' = [resp EXCEPT ![p] = Propagated]
    /\ url' = [url EXCEPT ![p] = NoUrl]
    /\ all_results' = [all_results EXCEPT ![p] = <<>>]
    /\ UNCHANGED <<fresh, stale, lock, got_lock, last_good, ticks,
                   chain, requested, lock_by>>

\* one iteration of the while loop completes: all_results.extend(results),
\* then the next page or the return
Legacy_PageRead(p) ==
    /\ pc[p] = "fetch"
    /\ \E it \in Legacy_Iterations :
        /\ it.exc = ""
        /\ Len(all_results[p]) + Len(it.results) <= MaxLen
        /\ all_results' = [all_results EXCEPT ![p] = @ \o it.results]
        /\ url' = [url EXCEPT ![p] = it.next]
        /\ clean' = [clean EXCEPT ![p] = @ /\ it.ok]
        /\ pc' = [pc EXCEPT ![p] = IF Legacy_LoopContinues(it.next) THEN "fetch"
                                   ELSE "set_fresh"]
    /\ UNCHANGED <<fresh, stale, lock, got_lock, exc, resp, ops, last_good, ticks,
                   chain, requested, lock_by>>

\* cache.set(CACHE_KEY, results, timeout=CACHE_TTL_SECONDS)
Legacy_SetFresh(p) ==
    /\ pc[p] = "set_fresh"
    /\ Store(Legacy_CACHE_KEY, CacheSet(all_results[p], Legacy_CACHE_TTL_SECONDS))
    /\ ops' = [ops EXCEPT ![p].sets = Append(@, <<"fresh", all_results[p]>>)]
    /\ pc' = [pc EXCEPT ![p] = "set_stale"]
    /\ UNCHANGED <<url, all_results, got_lock, exc, resp, clean, last_good, ticks,
                   chain, requested, lock_by>>

\* cache.set(STALE_KEY, results, timeout=STALE_TTL_SECONDS); return source="fresh"
Legacy_SetStale(p) ==
    /\ pc[p] = "set_stale"
    /\ Store(Legacy_STALE_KEY, CacheSet(all_results[p], Legacy_STALE_TTL_SECONDS))
    /\ ops' = [ops EXCEPT ![p].sets = Append(@, <<"stale", all_results[p]>>)]
    /\ resp' = [resp EXCEPT ![p] = Legacy_JsonResponse200(all_results[p], "fresh")]
    /\ last_good' = Some(all_results[p])
    /\ pc' = [pc EXCEPT ![p] = "finally"]
    /\ UNCHANGED <<url, all_results, got_lock, exc, clean, ticks,
                   chain, requested, lock_by>>

\* except Exception: stale = cache.get(STALE_KEY); 200 "stale" or 502
Legacy_ExceptGetStale(p) ==
    /\ pc[p] = "except"
    /\ LET st == CacheGet(Entry(Legacy_STALE_KEY)) IN
         resp' = [resp EXCEPT ![p] =
                    IF IsNotNone(st) THEN Legacy_JsonResponse200(st.val, "stale")
                    ELSE Legacy_JsonError(502)]
    /\ exc' = [exc EXCEPT ![p] = ""]
    /\ pc' = [pc EXCEPT ![p] = "finally"]
    /\ UNCHANGED <<fresh, stale, lock, url, all_results, got_lock, ops, clean, last_good,
                   ticks, chain, requested, lock_by>>

\* finally: cache.delete(LOCK_KEY); then the held response is returned
Legacy_Finally(p) ==
    /\ pc[p] = "finally"
    /\ Store(Legacy_LOCK_KEY, CacheDelete(Entry(Legacy_LOCK_KEY)))
    /\ lock_by' = IF Present(lock') THEN lock_by ELSE Nobody
    /\ ops' = [ops EXCEPT ![p].del = @ + 1]
    /\ Return(p, resp[p])
    /\ url' = [url EXCEPT ![p] = NoUrl]
    /\ all_results' = [all_results EXCEPT ![p] = <<>>]
    /\ UNCHANGED <<got_lock, exc, clean, last_good, ticks, chain, requested>>

\* 3) the lock was not obtained: stale = cache.get(STALE_KEY)
Legacy_LostGetStale(p) ==
    /\ pc[p] = "lost_stale"
    /\ LET st == CacheGet(Entry(Legacy_STALE_KEY)) IN
         IF IsNotNone(st)
         THEN Return(p, Legacy_JsonResponse200(st.val, "stale"))
         ELSE /\ pc' = [pc EXCEPT ![p] = "lost_fresh"]
              /\ resp' = resp
    /\ UNCHANGED <<fresh, stale, lock, url, all_results, got_lock, exc, ops, clean,
                   last_good, ticks, chain, requested, lock_by>>

\* 4) cached2 = cache.get(CACHE_KEY); 200 "cache" or 503
Legacy_LostGetFresh(p) ==
    /\ pc[p] = "lost_fresh"
    /\ LET cached2 == CacheGet(Entry(Legacy_CACHE_KEY)) IN
         Return(p, IF IsNotNone(cached2) THEN Legacy_JsonResponse200(cached2.val, "cache")
                   ELSE Legacy_JsonError(503))
    /\ UNCHANGED <<fresh, stale, lock, url, all_results, got_lock, exc, ops, clean,
                   last_good, ticks, chain, requested, lock_by>>

Legacy_Step(p) ==
    \/ Legacy_Start(p)
    \/ Legacy_AddLock(p)
    \/ Legacy_PageRaises(p)
    \/ Legacy_PageRead(p)
    \/ Legacy_SetFresh(p)
    \/ Legacy_SetStale(p)
    \/ Legacy_ExceptGetStale(p)
    \/ Legacy_Finally(p)
    \/ Legacy_LostGetStale(p)
    \/ Legacy_LostGetFresh(p)

\* both views are served from the same cache store: every step of a request
\* is run by one handler or the other
EquivNext == Tick \/ \E p \in Procs : Step(p) \/ Legacy_Step(p)

EquivSpec == Init /\ [][EquivNext]_vars

(***************************************************************************)
(* Properties                                                              *)
(***************************************************************************)

\* worker p is between its successful cache.add(lock_key) and its
\* cache.delete(lock_key)
InRefresh(p) == pc[p] \in {"fetch", "set_fresh", "set_stale", "except", "finally"}

\* worker p has returned from a request in which it won the lock
WinnerDone(p) == pc[p] = "done" /\ got_lock[p]

\* C1: mutual exclusion of refreshes: in every reachable state at most one
\* request is between a successful cache.add(lock_key) and its
\* cache.delete(lock_key), lock expiry by TTL included.
C1_MutualExclusion == Cardinality({p \in Procs : InRefresh(p)}) <= 1

\* C2: lock release on every exit path: the step by which a lock winner
\* returns (200 "fresh", 200 "stale" or 502) is its cache.delete(lock_key),
\* after a fetch that succeeded or raised, and the lock key is absent right
\* after it.
C2_LockReleasedOnReturn ==
    [][\A p \in Procs :
        (got_lock[p] /\ pc[p] # "done" /\ pc'[p] = "done") =>
            /\ pc[p] = "finally"
            /\ ops'[p].del = 1
            /\ ~Present(lock')
            /\ \/ resp'[p].status = 200 /\ resp'[p].source \in {"fresh", "stale"}
               \/ resp'[p].status = 502]_vars

\* a winner whose fetch raised has returned the stale snapshot, and the lock
\* key is absent
C2_Witness ==
    \E p \in Procs :
        /\ WinnerDone(p)
        /\ resp[p].source = "stale"
        /\ ops[p].del = 1
        /\ ~Present(lock)

\* C3: at most one upstream fetch per fresh-TTL period: once a refresh has
\* succeeded, written the fresh entry and ended, no request starts another
\* upstream fetch while that fresh entry is unexpired.
C3_NoFetchWhileFresh ==
    [][\A p \in Procs :
        (pc[p] = "add" /\ pc'[p] = "fetch") =>
            ~(Present(fresh) /\ \A q \in Procs : ~InRefresh(q))]_vars

\* C4: fresh hit: a request that starts while the fresh entry is unexpired
\* returns 200 "cache" with the snapshot of the fresh tier, without any
\* cache.add, upstream fetch, cache.set or cache.delete.
C4_FreshHit ==
    [][\A p \in Procs :
        (Start(p) /\ Present(fresh)) =>
            /\ pc'[p] = "done"
            /\ resp'[p] = JsonResponse200(fresh.val, "cache")
            /\ ops'[p] = NoOps
            /\ UNCHANGED <<fresh, stale, lock>>]_vars

\* a request has been answered from an unexpired fresh entry that holds the
\* empty catalog, having done nothing else
C4_Witness ==
    \E p \in Procs :
        /\ pc[p] = "done"
        /\ resp[p] = JsonResponse200(<<>>, "cache")
        /\ ops[p] = NoOps
        /\ Present(fresh)
        /\ last_good.some

\* the two writes of a successful refresh with result r, in their order
BothTiers(r) == << <<"fresh", r>>, <<"stale", r>> >>

\* C5: successful refresh: a lock winner whose fetch succeeded writes the
\* fetched result to the fresh key and then to the stale key, the same value,
\* and returns 200 "fresh" with that result; no request returns having
\* written the fresh key without the stale key.
C5_SuccessfulRefresh ==
    [][\A p \in Procs :
        /\ (pc[p] = "set_fresh" /\ pc'[p] # "set_fresh") =>
              /\ fresh' = [val |-> all_results[p], ttl |-> CACHE_TTL_SECONDS]
              /\ pc'[p] = "set_stale"
        /\ (pc[p] = "set_stale" /\ pc'[p] # "set_stale") =>
              /\ stale' = [val |-> all_results[p], ttl |-> STALE_TTL_SECONDS]
              /\ ops'[p].sets = BothTiers(all_results[p])
              /\ resp'[p] = JsonResponse200(all_results[p], "fresh")
              /\ pc'[p] = "finally"
        /\ (pc[p] = "finally" /\ pc'[p] = "done") => resp'[p] = resp[p]
        /\ pc'[p] = "done" =>
              /\ ops'[p].sets \in {<<>>, BothTiers(resp'[p].results)}
              /\ (ops'[p].sets # <<>>) = (resp'[p].source = "fresh")
              /\ resp'[p].source = "fresh" => resp'[p].status = 200 /\ got_lock'[p]]_vars

\* a winner has returned 200 "fresh" with a non-empty catalog that both tiers
\* now hold
C5_Witness ==
    \E p \in Procs :
        /\ WinnerDone(p)
        /\ resp[p].source = "fresh"
        /\ resp[p].results # <<>>
        /\ fresh.val = resp[p].results /\ Present(fresh)
        /\ stale.val = resp[p].results /\ Present(stale)

\* worker p has returned from a request in which it won the lock and its
\* fetch raised
FailedDone(p) == WinnerDone(p) /\ ops[p].sets = <<>>

\* C6: failed refresh ladder: a lock winner whose fetch raised returns 200
\* "stale" with the stale snapshot when the stale entry is present at that
\* read, and 502 exactly when it is absent; no other request returns 502.
C6_FailedRefreshLadder ==
    [][\A p \in Procs :
        /\ (pc[p] = "except" /\ pc'[p] # "except") =>
              /\ pc'[p] = "finally"
              /\ resp'[p] = IF Present(stale) THEN JsonResponse200(stale.val, "stale")
                            ELSE JsonError(502)
        /\ (pc'[p] = "done" /\ resp'[p].status = 502) =>
              /\ got_lock'[p]
              /\ ops'[p].sets = <<>>
              /\ pc[p] \in {"finally", "done"}]_vars

\* a winner whose fetch raised found no stale entry and has returned 502
C6_Witness == \E p \in Procs : FailedDone(p) /\ resp[p].status = 502

\* worker p is on the lock-lost path, or has returned from it
LostLock(p) ==
    \/ pc[p] \in {"lost_stale", "lost_fresh"}
    \/ pc[p] = "done" /\ ops[p].add = 1 /\ ~got_lock[p]

\* C7: lock-lost ladder: a request whose cache.add failed returns "stale" if
\* the stale entry is present, otherwise reads the fresh key once more and
\* returns "cache" if it is present, otherwise 503; on this path it starts no
\* upstream fetch and writes or deletes no cache key.
C7_LockLostLadder ==
    [][\A p \in Procs :
        /\ (pc[p] = "add" /\ pc'[p] # "add" /\ Present(lock)) => pc'[p] = "lost_stale"
        /\ (pc[p] = "lost_stale" /\ pc'[p] # "lost_stale") =>
              IF Present(stale)
              THEN pc'[p] = "done" /\ resp'[p] = JsonResponse200(stale.val, "stale")
              ELSE pc'[p] = "lost_fresh"
        /\ (pc[p] = "lost_fresh" /\ pc'[p] # "lost_fresh") =>
              /\ pc'[p] = "done"
              /\ resp'[p] = IF Present(fresh) THEN JsonResponse200(fresh.val, "cache")
                            ELSE JsonError(503)
        /\ (LostLock(p) /\ pc[p] # "done" /\ pc'[p] # pc[p]) =>
              UNCHANGED <<fresh, stale, lock>>
        /\ LostLock(p)' =>
              ops'[p].fetch = 0 /\ ops'[p].sets = <<>> /\ ops'[p].del = 0]_vars

\* a request that lost the lock found the stale key absent and the fresh key
\* present at its second read, and has returned "cache"
C7_Witness ==
    \E p \in Procs :
        /\ LostLock(p)
        /\ pc[p] = "done"
        /\ resp[p].status = 200
        /\ resp[p].source = "cache"

\* C8: stale fallback across TTLs: after a refresh completed with snapshot S,
\* a lock winner whose fetch raises while the stale entry is unexpired (the
\* fresh entry having expired) returns 200 "stale" with S, the snapshot of
\* the refresh that completed last.
C8_StaleFallback ==
    [][\A p \in Procs :
        (pc[p] = "except" /\ pc'[p] # "except" /\ Present(stale)) =>
            /\ last_good.some
            /\ resp'[p] = JsonResponse200(last_good.val, "stale")]_vars

\* time has passed since a refresh cached a non-empty S: the fresh entry has
\* expired, the stale entry has not, and a winner whose fetch raised has
\* returned S as "stale"
C8_Witness ==
    \E p \in Procs :
        /\ FailedDone(p)
        /\ resp[p] = JsonResponse200(last_good.val, "stale")
        /\ last_good.val # <<>>
        /\ ~Present(fresh)
        /\ Present(stale) /\ stale.ttl < STALE_TTL_SECONDS

\* the step writes (creates or overwrites) the entry
Written(entry, entry2) ==
    Present(entry2) /\ (entry2.val # entry.val \/ entry2.ttl > entry.ttl)

\* C9: a failed refresh changes no tier: the fresh and stale entries are
\* written only by a refresh whose fetch got a well-formed 200 on every page
\* up to the last, with the complete result; a request whose fetch raised on
\* any page writes neither tier.
C9_FailedRefreshWritesNothing ==
    [][/\ Written(fresh, fresh') =>
            \E p \in Procs :
                /\ pc[p] = "set_fresh" /\ pc'[p] = "set_stale"
                /\ clean[p] /\ url[p] = NoUrl
                /\ fresh'.val = all_results[p]
       /\ Written(stale, stale') =>
            \E p \in Procs :
                /\ pc[p] = "set_stale" /\ pc'[p] = "finally"
                /\ clean[p] /\ url[p] = NoUrl
                /\ stale'.val = all_results[p]
       /\ \A p \in Procs :
            /\ ~clean'[p] => pc'[p] \notin {"set_fresh", "set_stale"}
            /\ (~clean'[p] \/ pc'[p] = "except") => ops'[p].sets = <<>>
            /\ (pc[p] = "except" /\ pc'[p] # "except") =>
                  UNCHANGED <<fresh, stale>> /\ ops'[p].sets = <<>>
            /\ (pc[p] = "finally" /\ pc'[p] = "done") =>
                  UNCHANGED <<fresh, stale>> /\ ops'[p].sets = ops[p].sets]_vars

\* a fetch raised after an earlier page with records had been read, the
\* request has returned, and both tiers still hold the older, empty snapshot
C9_Witness ==
    \E p \in Procs :
        /\ FailedDone(p)
        /\ ops[p].partial
        /\ Present(fresh) /\ fresh.val = <<>>
        /\ Present(stale) /\ stale.val = <<>>

\* worker p is serving a request
Serving(p) == pc[p] \notin {"idle", "done"}

\* worker p has returned, having deleted the lock if it had won it
Returned(p) == pc[p] = "done" /\ (got_lock[p] => ops[p].del = 1)

\* worker p reads a page that names a next page
MorePages(p) == PageRead(p) /\ pc'[p] = "fetch"

\* C10 as stated: whatever the upstream answers, every refresh ends and the
\* winner deletes the lock, so every request returns.
C10_AlwaysCompletes == \A p \in Procs : Serving(p) ~> Returned(p)

\* C10: refresh completion: unless the upstream keeps handing out pages that
\* name a next page for ever, every refresh started by a lock winner ends in
\* success or failure and the winner deletes the lock, and every request
\* returns a response.
C10_CompletesUnlessEndlessPages ==
    \A p \in Procs : ([]<><<MorePages(p)>>_vars) \/ (Serving(p) ~> Returned(p))

\* both workers have returned, one of them a winner that deleted the lock
C10_Witness ==
    /\ \A p \in Procs : Returned(p)
    /\ \E p \in Procs : WinnerDone(p) /\ ops[p].del = 1 /\ clean[p]
    /\ ~Present(lock)

\* the exceptions one iteration of the fetcher's loop can raise
FetchFailures == {Raised(r) : r \in Replies} \ {""}

\* C11: no fetcher failure escapes: whatever is raised during the fetch
\* (timeout, transport failure, non-200 status, unparsable body, body of the
\* wrong shape), on the first page or a later one, control reaches the except
\* clause of courses_all, which answers 200 "stale" or 502 by the stale tier
\* alone, whatever the kind of failure (a timeout like any other); the caller
\* always gets a response, never the exception.
C11_NoFailureEscapes ==
    [][\A p \in Procs :
        /\ (pc[p] = "fetch" /\ pc'[p] \notin {"fetch", "set_fresh"}) =>
              /\ pc'[p] = "except"
              /\ exc'[p] \in FetchFailures
              /\ resp'[p] # Propagated
        /\ (exc[p] \in FetchFailures /\ pc'[p] # pc[p]) =>
              /\ pc[p] = "except" /\ pc'[p] = "finally"
              /\ exc'[p] = ""
              /\ resp'[p] = IF IsNotNone(CacheGet(stale))
                            THEN JsonResponse200(CacheGet(stale).val, "stale")
                            ELSE JsonError(502)
        /\ pc'[p] = "done" =>
              /\ resp'[p] # Propagated
              /\ resp'[p].status \in {200, 502, 503}
              /\ exc'[p] = ""]_vars

\* a fetch raised on a later page, after records had been read; the failure
\* was caught and the request has returned 502
C11_Witness ==
    \E p \in Procs :
        /\ FailedDone(p)
        /\ ops[p].partial
        /\ resp[p] = JsonError(502)
        /\ exc[p] = ""

\* every page of the chain carries a list of records
ListsOnly(c) == \A i \in 1..Len(c.pages) : c.pages[i].t = "list"

\* the records of pages 1..n, in page order and element order
RECURSIVE Concatenation(_, _)
Concatenation(pages, n) ==
    IF n = 0 THEN <<>> ELSE Concatenation(pages, n - 1) \o pages[n].v

\* C12: pagination result: against an upstream that serves a finite chain of
\* 200 pages linked by pagination.next (the last with next null or pagination
\* missing), after k iterations the fetcher has requested pages 1..k, each
\* once and in order, and holds the concatenation of their results; it
\* returns when it has read the last page, with the concatenation of every
\* page's results in page order and element order.
C12_PaginationResult ==
    LET p == Fetcher
        k == Len(requested)
    IN  ListsOnly(chain) =>
            /\ k <= Len(chain.pages)
            /\ requested = [i \in 1..k |-> PageUrl(i)]
            /\ all_results[p] = Concatenation(chain.pages, k)
            /\ exc[p] = "" /\ clean[p]
            /\ (pc[p] = "set_fresh") = (k = Len(chain.pages))
            /\ pc[p] = "fetch" => url[p] = PageUrl(k + 1)
            /\ pc[p] \in {"fetch", "set_fresh"}

\* the fetcher has returned from a chain of three pages with one record each,
\* not all the same
C12_Witness ==
    /\ pc[Fetcher] = "set_fresh"
    /\ ListsOnly(chain)
    /\ Len(chain.pages) = 3
    /\ \A i \in 1..3 : Len(chain.pages[i].v) = 1
    /\ chain.pages[1] # chain.pages[2]
    /\ all_results[Fetcher] = chain.pages[1].v \o chain.pages[2].v \o chain.pages[3].v
    /\ requested = <<PageUrl(1), PageUrl(2), PageUrl(3)>>

\* worker p returns a response with source "cache" in this step
ReturnsCache(p) ==
    /\ pc'[p] = "done"
    /\ resp'[p].source = "cache"
    /\ pc[p] # "done" \/ Start(p)

\* C13: round trip through the fresh tier: the fresh key is written only by
\* a refresh whose fetch returned, with exactly the list the fetcher returned
\* (held unchanged between the return and the write); until the next such
\* write the entry keeps that value or expires; and every response with
\* source "cache" carries exactly the value the fresh entry holds, status 200.
C13_FreshRoundTrip ==
    [][/\ fresh' # fresh =>
            \/ \E p \in Procs :
                  /\ pc[p] = "set_fresh" /\ pc'[p] = "set_stale"
                  /\ fresh'.val = all_results[p]
                  /\ Present(fresh')
            \/ fresh'.val = fresh.val /\ fresh'.ttl < fresh.ttl /\ Present(fresh')
            \/ fresh' = Absent
       /\ \A p \in Procs :
            /\ (pc[p] \in {"set_fresh", "set_stale"} /\ pc'[p] # "done") =>
                  all_results'[p] = all_results[p]
            /\ ReturnsCache(p) =>
                  /\ Present(fresh)
                  /\ last_good.some \/ \E q \in Procs : pc[q] = "set_stale"
                  /\ resp'[p] = [status |-> 200, source |-> "cache", results |-> fresh.val]]_vars

\* one worker has refreshed and returned a non-empty catalog as "fresh", and
\* the other has then been answered the same catalog from the fresh tier
C13_Witness ==
    \E p, q \in Procs :
        /\ WinnerDone(q) /\ resp[q].source = "fresh" /\ resp[q].results # <<>>
        /\ pc[p] = "done" /\ ops[p] = NoOps
        /\ resp[p] = [status |-> 200, source |-> "cache", results |-> resp[q].results]
        /\ fresh.val = resp[q].results

\* C14: the lock is removed only by its creator: whenever a request's
\* cache.delete(lock_key) removes a lock entry, that entry was created by the
\* cache.add of this same request.
C14_DeletesOwnLock ==
    [][\A p \in Procs :
        (pc[p] = "finally" /\ pc'[p] = "done" /\ Present(lock)) => lock_by = p]_vars

\* the number of the page of the chain that url u names
PageAt(u) == CHOOSE i \in 1..Len(chain.pages) : PageUrl(i) = u

\* C15: malformed results field: when the fetcher reads a 200 page whose
\* results field is missing, null or a string, the accumulator stays as it
\* was, nothing is raised, and the loop goes on with that page's
\* pagination.next (or ends, on the last page).
C15_MalformedResults ==
    [][LET p == Fetcher
           i == PageAt(url[p])
       IN  (pc[p] = "fetch" /\ requested' # requested /\ chain.pages[i].t # "list") =>
               /\ all_results'[p] = all_results[p]
               /\ exc'[p] = ""
               /\ url'[p] = ChainPagination(chain, i).next
               /\ pc'[p] = IF i < Len(chain.pages) THEN "fetch" ELSE "set_fresh"]_vars

\* the fetcher has returned one record from a chain whose first page carries
\* a string as results, the second a list and the third no results
C15_Witness ==
    /\ pc[Fetcher] = "set_fresh"
    /\ Len(chain.pages) = 3
    /\ chain.pages[1].t = "str"
    /\ chain.pages[2].t = "list" /\ Len(chain.pages[2].v) = 1
    /\ chain.pages[3].t = "null"
    /\ all_results[Fetcher] = chain.pages[2].v
    /\ Len(requested) = 3

\* C16: no retries inside a request: a request runs cache.add on the lock at
\* most once, right after its first read, and starts the upstream fetch at
\* most once, right after winning the lock; after a failed fetch it only
\* reads the stale tier, builds its answer, deletes the lock and returns.
C16_NoRetries ==
    [][\A p \in Procs :
        /\ ops'[p].add <= 1
        /\ ops'[p].fetch <= ops'[p].add
        /\ (pc'[p] = "add" /\ pc[p] # "add") => pc[p] \in {"idle", "done"}
        /\ (pc'[p] = "fetch" /\ pc[p] # "fetch") => pc[p] = "add" /\ ops[p].fetch = 0
        /\ (pc[p] = "except" /\ pc'[p] # "except") =>
              /\ pc'[p] = "finally"
              /\ ops'[p] = ops[p]
              /\ UNCHANGED <<fresh, stale, lock>>
        /\ (pc[p] = "finally" /\ pc'[p] # "finally") =>
              /\ pc'[p] = "done"
              /\ ops'[p].add = ops[p].add /\ ops'[p].fetch = ops[p].fetch]_vars

\* a winner whose only fetch failed has returned 502 after one cache.add, and
\* the other request, which lost the lock, has returned 503 after one
\* cache.add and no fetch
C16_Witness ==
    \E p, q \in Procs :
        /\ FailedDone(p) /\ resp[p].status = 502
        /\ ops[p].add = 1 /\ ops[p].fetch = 1
        /\ pc[q] = "done" /\ resp[q].status = 503
        /\ ops[q].add = 1 /\ ops[q].fetch = 0

\* no request is between its successful cache.add and its cache.delete
AtRest == \A p \in Procs : ~InRefresh(p)

\* C17: tier consistency at rest: whenever no request is between acquiring
\* and releasing the lock, a present fresh entry comes with a present stale
\* entry that holds the same snapshot.
C17_TiersConsistentAtRest ==
    (AtRest /\ Present(fresh)) => (Present(stale) /\ stale.val = fresh.val)

\* C18: the empty catalog is a cacheable snapshot: a refresh whose fetch
\* returned zero records writes the empty list to both tiers, and while the
\* fresh entry holds it a request is answered 200 "cache" with no records at
\* its first read, without contesting the lock or fetching; on the lock-lost
\* and failed-refresh paths too a present key that holds the empty list is a
\* hit.
C18_EmptyCatalogCached ==
    [][\A p \in Procs :
        /\ (pc[p] = "set_fresh" /\ pc'[p] # "set_fresh" /\ all_results[p] = <<>>) =>
              Present(fresh') /\ fresh'.val = <<>>
        /\ (pc[p] = "set_stale" /\ pc'[p] # "set_stale" /\ all_results[p] = <<>>) =>
              Present(stale') /\ stale'.val = <<>>
        /\ (Start(p) /\ Present(fresh) /\ fresh.val = <<>>) =>
              /\ pc'[p] = "done"
              /\ resp'[p] = [status |-> 200, source |-> "cache", results |-> <<>>]
              /\ ops'[p].add = 0 /\ ops'[p].fetch = 0
              /\ lock' = lock
        /\ (pc[p] = "lost_fresh" /\ pc'[p] # "lost_fresh" /\ Present(fresh)
                /\ fresh.val = <<>>) =>
              resp'[p] = [status |-> 200, source |-> "cache", results |-> <<>>]
        /\ (pc[p] \in {"lost_stale", "except"} /\ pc'[p] # pc[p] /\ Present(stale)
                /\ stale.val = <<>>) =>
              resp'[p] = [status |-> 200, source |-> "stale", results |-> <<>>]]_vars

\* a refresh has fetched zero records and returned them as "fresh"; both
\* tiers hold the empty list, and the other request has then been answered
\* from the fresh tier at its first read
C18_Witness ==
    \E p, q \in Procs :
        /\ WinnerDone(q) /\ resp[q] = [status |-> 200, source |-> "fresh", results |-> <<>>]
        /\ Present(fresh) /\ fresh.val = <<>>
        /\ Present(stale) /\ stale.val = <<>>
        /\ pc[p] = "done" /\ ops[p].add = 0
        /\ resp[p] = [status |-> 200, source |-> "cache", results |-> <<>>]

\* C19: the two handler modules are equivalent: from every reachable state,
\* each step of courses_all in src/views.py (the cache operation with its key
\* and TTL, the page request, the response built) is a step of courses_all
\* in src/course_catalog_cache/views.py with default settings, and
\* conversely; both send the same page requests, starting at the same url.
C19_HandlersEquivalent ==
    [][/\ Legacy_BaseUrl = BaseUrl
       /\ \A u \in Urls : Legacy_PageRequest(u) = PageRequest(u)
       /\ \A p \in Procs :
            /\ Legacy_Start(p) <=> Start(p)
            /\ Legacy_AddLock(p) <=> AddLock(p)
            /\ Legacy_PageRaises(p) <=> PageRaises(p)
            /\ Legacy_PageRead(p) <=> PageRead(p)
            /\ Legacy_SetFresh(p) <=> SetFresh(p)
            /\ Legacy_SetStale(p) <=> SetStale(p)
            /\ Legacy_ExceptGetStale(p) <=> ExceptGetStale(p)
            /\ Legacy_Finally(p) <=> Finally(p)
            /\ Legacy_LostGetStale(p) <=> LostGetStale(p)
            /\ Legacy_LostGetFresh(p) <=> LostGetFresh(p)]_vars

\* time has passed since a refresh cached a non-empty catalog; a second
\* refresh has failed and its winner has returned the catalog as "stale",
\* and so has the request that lost the lock to it
C19_Witness ==
    \E p, q \in Procs :
        /\ FailedDone(q) /\ resp[q].source = "stale" /\ resp[q].results # <<>>
        /\ LostLock(p) /\ pc[p] = "done" /\ resp[p] = resp[q]
        /\ ~Present(fresh) /\ ~Present(lock)

====
